---- MODULE Spec2Model ----
(***************************************************************************)
(* A model of the xwax timecode decoder (src/timecoder.c): the timecode    *)
(* definition table, the LFSR, the lookup table builder and the per-sample *)
(* decoder with its queries.                                               *)
(*                                                                         *)
(* Integers of the C code are modelled as TLA+ integers: every counter is  *)
(* bounded far below 2^31 by the guards.  The lookup table of a            *)
(* definition is a function on 0 .. (2 << bits) - 1, as allocated.         *)
(***************************************************************************)
EXTENDS Integers, Sequences, FiniteSets, TLC

VARIABLES
    timecode_def,   \* the global definition table, with the lookup pointers
    def,            \* the global pointer: an index into timecode_def
    tc,             \* the decoder (struct timecoder_t)
    ret,            \* what the last call returned to its caller
    obs             \* history of the current pitch interval (observer only)

vars == <<timecode_def, def, tc, ret, obs>>

(***************************************************************************)
(* Bounds of the model.                                                    *)
(***************************************************************************)
\* widths of the scaled-down definitions: 2 .. MaxBits
MaxBits == 3
\* lengths of the scaled-down definitions: 1 .. MaxLength
MaxLength == 8
\* codes 0 .. MaxCode and their complements are tried on the real definitions
MaxCode == 8
\* as are the first MaxIter forward iterates of each real seed
MaxIter == 8
\* the decoder is fed at most MaxFrames stereo frames, one at a time
MaxFrames == 5
\* tc->crossing_ticker starts at any value in -MaxGarbage .. MaxGarbage
MaxGarbage == 1
\* the silent decoder is fed at most MaxSilence frames of zeros
MaxSilence == 6
\* the detectors are watched over at most MaxDetect frames
MaxDetect == 2
\* the locked decoder counts at most MaxExtra cycles past VALID_BITS + 1,
MaxExtra == 1
\* collects at most MaxCrossings swaps between two drains of the pitch
MaxCrossings == 1
\* and none of its sample counters exceeds MaxTicker
MaxTicker == 3
\* the record is scratched for at most MaxScratch half waves before it plays
MaxScratch == 2
\* and the needle skips at most MaxSkips times
MaxSkips == 1

(***************************************************************************)
(* Program constants.                                                      *)
(***************************************************************************)
ZERO_THRESHOLD == 128
SIGNAL_THRESHOLD == 256
REF_PEAKS_AVG == 48
VALID_BITS == 24
\* the filters' time constants ZERO_RC and SIGNAL_RC, in milliseconds
ZERO_RC_MS == 1
SIGNAL_RC_MS == 4
POLARITY_NEGATIVE == 0
POLARITY_POSITIVE == 1
\* a NULL lookup pointer: a table with no slots
NULL == << >>

(***************************************************************************)
(* Bit operations on naturals.                                             *)
(***************************************************************************)
RECURSIVE BitAnd(_, _)
BitAnd(a, b) ==
    IF a = 0 \/ b = 0 THEN 0
    ELSE (a % 2) * (b % 2) + 2 * BitAnd(a \div 2, b \div 2)

RECURSIVE BitOr(_, _)
BitOr(a, b) ==
    IF a = 0 THEN b
    ELSE IF b = 0 THEN a
    ELSE (IF a % 2 = 1 \/ b % 2 = 1 THEN 1 ELSE 0)
         + 2 * BitOr(a \div 2, b \div 2)


\* x << k and x >> k on bits_t.  Every definition is at most 23 bits wide
\* and every code is below 2^bits, so no shift reaches bit 31.
Shl(x, k) == x * (2 ^ k)
Shr(x, k) == x \div (2 ^ k)

(***************************************************************************)
(* The definition table.                                                   *)
(***************************************************************************)
SourceDefs ==
    << [name |-> "serato_2a", resolution |-> 1000,
        polarity |-> POLARITY_POSITIVE, bits |-> 20, seed |-> 364567,
        taps |-> 221668, length |-> 712000, safe |-> 707000,
        lookup |-> NULL],
       [name |-> "serato_2b", resolution |-> 1000,
        polarity |-> POLARITY_POSITIVE, bits |-> 20, seed |-> 586694,
        taps |-> 323800, length |-> 922000, safe |-> 917000,
        lookup |-> NULL],
       [name |-> "serato_cd", resolution |-> 1000,
        polarity |-> POLARITY_POSITIVE, bits |-> 20, seed |-> 543756,
        taps |-> 216404, length |-> 940000, safe |-> 930000,
        lookup |-> NULL],
       [name |-> "traktor_a", resolution |-> 2000,
        polarity |-> POLARITY_POSITIVE, bits |-> 23, seed |-> 1262851,
        taps |-> 266304, length |-> 1500000, safe |-> 1480000,
        lookup |-> NULL],
       [name |-> "traktor_b", resolution |-> 2000,
        polarity |-> POLARITY_POSITIVE, bits |-> 23, seed |-> 3278444,
        taps |-> 266304, length |-> 2110000, safe |-> 2090000,
        lookup |-> NULL] >>

\* A definition of the same shape with a width small enough to build its
\* table explicitly: any taps and seed of that width, any length.
ScaledDef(nm, b, t, s, len, pol) ==
    [name |-> nm, resolution |-> 1000, polarity |-> pol, bits |-> b,
     seed |-> s, taps |-> t, length |-> len, safe |-> len - 1,
     lookup |-> NULL]

\* A table of two scaled-down definitions, the second being the first one
\* started one code later (as the two sides of a record are).
ScaledTable(b, t, s, len, pol) ==
    << ScaledDef("scaled_a", b, t, s, len, pol),
       ScaledDef("scaled_b", b, t, (s + 1) % (2 ^ b), len, pol) >>

ScaledTables(pols) ==
    { ScaledTable(b, t, s, len, pol) :
        b \in 2 .. MaxBits, t \in 0 .. (2 ^ MaxBits - 1),
        s \in 0 .. (2 ^ MaxBits - 1), len \in 1 .. MaxLength, pol \in pols }

WellFormedTable(tab) ==
    \A i \in 1 .. Len(tab) :
        tab[i].taps < 2 ^ tab[i].bits /\ tab[i].seed < 2 ^ tab[i].bits

\* The entry after the last one is the terminator { name: NULL }.
Terminator ==
    [name |-> "", resolution |-> 0, polarity |-> 0, bits |-> 0, seed |-> 0,
     taps |-> 0, length |-> 0, safe |-> 0, lookup |-> NULL]

Entry(tab, i) == IF i \in 1 .. Len(tab) THEN tab[i] ELSE Terminator

(***************************************************************************)
(* The LFSR.                                                               *)
(***************************************************************************)
RECURSIVE lfsr_xrs(_)
lfsr_xrs(taken) ==
    IF taken = 0 THEN 0 ELSE (taken % 2) + lfsr_xrs(taken \div 2)

lfsr(code, taps) == lfsr_xrs(BitAnd(code, taps)) % 2

fwd(current, d) ==
    LET l == lfsr(current, BitOr(d.taps, 1))
    IN  BitOr(Shr(current, 1), Shl(l, d.bits - 1))

\* rev with the taps left where fwd has them
rev_taps_unshifted(current, d) ==
    LET mask == (2 ^ d.bits) - 1
        l == lfsr(current, BitOr(d.taps, Shl(1, d.bits - 1)))
    IN  BitOr(BitAnd(Shl(current, 1), mask), l)

rev(current, d) ==
    LET mask == (2 ^ d.bits) - 1
        l == lfsr(current, BitOr(Shr(d.taps, 1), Shl(1, d.bits - 1)))
    IN  BitOr(BitAnd(Shl(current, 1), mask), l)

RECURSIVE FwdIter(_, _, _)
FwdIter(x, d, n) == IF n = 0 THEN x ELSE FwdIter(fwd(x, d), d, n - 1)

(***************************************************************************)
(* timecoder_build_lookup.                                                 *)
(***************************************************************************)
\* the while loop over the table: the first entry of that name, or the
\* terminator's index
RECURSIVE FindDef(_, _, _)
FindDef(tab, timecode_name, i) ==
    IF i > Len(tab) THEN i
    ELSE IF tab[i].name = timecode_name THEN i
    ELSE FindDef(tab, timecode_name, i + 1)

\* the loop running one step past length
RECURSIVE BuildLoop_one_more(_, _, _, _)
BuildLoop_one_more(d, lookup, current, n) ==
    IF n > d.length
    THEN [val |-> 0, lookup |-> lookup, abort |-> FALSE, n |-> n]
    ELSE IF lookup[current] # -1
    THEN [val |-> -1, lookup |-> lookup, abort |-> FALSE, n |-> n]
    ELSE BuildLoop_one_more(d, [lookup EXCEPT ![current] = n],
                            fwd(current, d), n + 1)

\* the loop without its test for a slot already written
RECURSIVE BuildLoop_no_wrap_test(_, _, _, _)
BuildLoop_no_wrap_test(d, lookup, current, n) ==
    IF n >= d.length
    THEN [val |-> 0, lookup |-> lookup, abort |-> FALSE, n |-> n]
    ELSE BuildLoop_no_wrap_test(d, [lookup EXCEPT ![current] = n],
                                fwd(current, d), n + 1)

\* the for loop filling the table from step n on
RECURSIVE BuildLoop(_, _, _, _)
BuildLoop(d, lookup, current, n) ==
    IF n >= d.length
    THEN [val |-> 0, lookup |-> lookup, abort |-> FALSE, n |-> n]
    ELSE IF lookup[current] # -1
    THEN [val |-> -1, lookup |-> lookup, abort |-> FALSE, n |-> n]
    ELSE LET filled == [lookup EXCEPT ![current] = n]
             next == fwd(current, d)
         IN  IF rev(next, d) # current
             THEN [val |-> 0, lookup |-> filled, abort |-> TRUE, n |-> n]
             ELSE BuildLoop(d, filled, next, n + 1)

FreshLookup(d) == [c \in 0 .. (Shl(2, d.bits) - 1) |-> -1]

timecoder_build_lookup(timecode_name, mallocOk) ==
    LET i == FindDef(timecode_def, timecode_name, 1)
    IN  /\ ret.op \in {"none", "build_lookup"}
        /\ def' = i
        /\ IF i > Len(timecode_def)
           THEN /\ ret' = [op |-> "build_lookup", val |-> -1]
                /\ UNCHANGED timecode_def
           ELSE IF ~mallocOk
           THEN /\ ret' = [op |-> "build_lookup", val |-> 0]
                /\ timecode_def' = [timecode_def EXCEPT ![i].lookup = NULL]
           ELSE LET r == BuildLoop(timecode_def[i],
                                   FreshLookup(timecode_def[i]),
                                   timecode_def[i].seed, 0)
                IN  /\ ret' = IF r.abort
                              THEN [op |-> "abort", val |-> r.n]
                              ELSE [op |-> "build_lookup", val |-> r.val]
                    /\ timecode_def' =
                           [timecode_def EXCEPT ![i].lookup = r.lookup]
        /\ UNCHANGED <<tc, obs>>

ActiveDef == Entry(timecode_def, def)

(***************************************************************************)
(* The decoder.                                                            *)
(*                                                                         *)
(* zero and signal_level are signed ints (timecoder.h) updated through a   *)
(* float expression: the sum is taken exactly here and truncated towards   *)
(* zero as the conversion back to int does.  alpha = dt / (RC + dt) with   *)
(* dt = 1 / rate is kept as the fraction 1000 / (RC_MS * rate + 1000).     *)
(***************************************************************************)
Abs(x) == IF x < 0 THEN -x ELSE x
Max(a, b) == IF a > b THEN a ELSE b

\* the conversion of an int to the signed short parameter v
ToShort(g) == ((g + 32768) % 65536) - 32768

\* (int)(z + num / den) for den > 0
TruncAdd(z, num, den) ==
    LET q == num \div den
    IN  IF z + q >= 0 \/ num % den = 0 THEN z + q ELSE z + q + 1

Alpha(rc_ms, rate) == [num |-> 1000, den |-> rc_ms * rate + 1000]

\* x += alpha * (v - x)
Filter(x, v, alpha) == TruncAdd(x, alpha.num * (v - x), alpha.den)

init_channel == [positive |-> 0, zero |-> 0, crossing_ticker |-> 0]

\* timecoder_init leaves tc->crossing_ticker (and the monitor's size and
\* counter) as they were: crossing_ticker is whatever the memory held.
timecoder_init(garbage) ==
    [forwards |-> 1, rate |-> 0,
     half_peak |-> 0, wave_peak |-> 0, ref_level |-> -1, signal_level |-> 0,
     mono |-> init_channel,
     channel |-> <<init_channel, init_channel>>,
     zero_alpha |-> [num |-> 0, den |-> 1],
     signal_alpha |-> [num |-> 0, den |-> 1],
     crossings |-> 0, pitch_ticker |-> 0, crossing_ticker |-> garbage,
     bitstream |-> 0, timecode |-> 0, valid_counter |-> 0,
     timecode_ticker |-> 0,
     mon |-> "NULL", log_fd |-> -1]

set_sample_rate(t, rate) ==
    [t EXCEPT !.rate = rate,
              !.zero_alpha = Alpha(ZERO_RC_MS, rate),
              !.signal_alpha = Alpha(SIGNAL_RC_MS, rate)]

\* the detector comparing with the zero level itself, without the threshold
detect_zero_crossing_no_threshold(ch, v, alpha) ==
    LET up == v >= ch.zero /\ ch.positive = 0
        down == v < ch.zero /\ ch.positive = 1
        swapped == up \/ down
    IN  [swapped |-> swapped,
         ch |-> [positive |-> IF up THEN 1 ELSE IF down THEN 0
                              ELSE ch.positive,
                 crossing_ticker |-> IF swapped THEN 0
                                     ELSE ch.crossing_ticker + 1,
                 zero |-> Filter(ch.zero, v, alpha)]]

\* the detector with a strict comparison on the rising edge too
detect_zero_crossing_strict_rise(ch, v, alpha) ==
    LET up == v > ch.zero + ZERO_THRESHOLD /\ ch.positive = 0
        down == v < ch.zero - ZERO_THRESHOLD /\ ch.positive = 1
        swapped == up \/ down
    IN  [swapped |-> swapped,
         ch |-> [positive |-> IF up THEN 1 ELSE IF down THEN 0
                              ELSE ch.positive,
                 crossing_ticker |-> IF swapped THEN 0
                                     ELSE ch.crossing_ticker + 1,
                 zero |-> Filter(ch.zero, v, alpha)]]

detect_zero_crossing(ch, v, alpha) ==
    LET up == v >= ch.zero + ZERO_THRESHOLD /\ ch.positive = 0
        down == v < ch.zero - ZERO_THRESHOLD /\ ch.positive = 1
        swapped == up \/ down
    IN  [swapped |-> swapped,
         ch |-> [positive |-> IF up THEN 1 ELSE IF down THEN 0
                              ELSE ch.positive,
                 crossing_ticker |-> IF swapped THEN 0
                                     ELSE ch.crossing_ticker + 1,
                 zero |-> Filter(ch.zero, v, alpha)]]

\* polarity ^ forwards
Xor(a, b) == (a + b) % 2

\* the branch without the mask on the shift to the left
FullCycle_unmasked(t, d) ==
    LET b == IF t.wave_peak + t.half_peak > t.ref_level THEN 1 ELSE 0
        timecode == IF t.forwards = 1 THEN fwd(t.timecode, d)
                    ELSE rev(t.timecode, d)
        bitstream == IF t.forwards = 1
                     THEN Shr(t.bitstream, 1) + Shl(b, d.bits - 1)
                     ELSE Shl(t.bitstream, 1) + b
    IN  [t EXCEPT
           !.bitstream = bitstream,
           !.timecode = IF timecode = bitstream THEN timecode ELSE bitstream,
           !.valid_counter = IF timecode = bitstream
                             THEN t.valid_counter + 1 ELSE 0,
           !.timecode_ticker = 0,
           !.ref_level = IF t.ref_level = -1
                         THEN t.half_peak + t.wave_peak
                         ELSE (t.ref_level * (REF_PEAKS_AVG - 1)
                               + t.half_peak + t.wave_peak)
                              \div REF_PEAKS_AVG]

\* the branch stepping and shifting against the decoder's direction
FullCycle_against_direction(t, d) ==
    LET b == IF t.wave_peak + t.half_peak > t.ref_level THEN 1 ELSE 0
        mask == (2 ^ d.bits) - 1
        timecode == IF t.forwards = 0 THEN fwd(t.timecode, d)
                    ELSE rev(t.timecode, d)
        bitstream == IF t.forwards = 0
                     THEN Shr(t.bitstream, 1) + Shl(b, d.bits - 1)
                     ELSE BitAnd(Shl(t.bitstream, 1), mask) + b
    IN  [t EXCEPT
           !.bitstream = bitstream,
           !.timecode = IF timecode = bitstream THEN timecode ELSE bitstream,
           !.valid_counter = IF timecode = bitstream
                             THEN t.valid_counter + 1 ELSE 0,
           !.timecode_ticker = 0,
           !.ref_level = IF t.ref_level = -1
                         THEN t.half_peak + t.wave_peak
                         ELSE (t.ref_level * (REF_PEAKS_AVG - 1)
                               + t.half_peak + t.wave_peak)
                              \div REF_PEAKS_AVG]

\* the branch slicing a loud cycle as a zero
FullCycle_inverted_slice(t, d) ==
    LET b == IF t.wave_peak + t.half_peak > t.ref_level THEN 0 ELSE 1
        mask == (2 ^ d.bits) - 1
        timecode == IF t.forwards = 1 THEN fwd(t.timecode, d)
                    ELSE rev(t.timecode, d)
        bitstream == IF t.forwards = 1
                     THEN Shr(t.bitstream, 1) + Shl(b, d.bits - 1)
                     ELSE BitAnd(Shl(t.bitstream, 1), mask) + b
    IN  [t EXCEPT
           !.bitstream = bitstream,
           !.timecode = IF timecode = bitstream THEN timecode ELSE bitstream,
           !.valid_counter = IF timecode = bitstream
                             THEN t.valid_counter + 1 ELSE 0,
           !.timecode_ticker = 0,
           !.ref_level = IF t.ref_level = -1
                         THEN t.half_peak + t.wave_peak
                         ELSE (t.ref_level * (REF_PEAKS_AVG - 1)
                               + t.half_peak + t.wave_peak)
                              \div REF_PEAKS_AVG]

\* the branch that keeps its prediction on a mispredict
FullCycle_no_resync(t, d) ==
    LET b == IF t.wave_peak + t.half_peak > t.ref_level THEN 1 ELSE 0
        mask == (2 ^ d.bits) - 1
        timecode == IF t.forwards = 1 THEN fwd(t.timecode, d)
                    ELSE rev(t.timecode, d)
        bitstream == IF t.forwards = 1
                     THEN Shr(t.bitstream, 1) + Shl(b, d.bits - 1)
                     ELSE BitAnd(Shl(t.bitstream, 1), mask) + b
    IN  [t EXCEPT
           !.bitstream = bitstream,
           !.timecode = timecode,
           !.valid_counter = IF timecode = bitstream
                             THEN t.valid_counter + 1 ELSE 0,
           !.timecode_ticker = 0,
           !.ref_level = IF t.ref_level = -1
                         THEN t.half_peak + t.wave_peak
                         ELSE (t.ref_level * (REF_PEAKS_AVG - 1)
                               + t.half_peak + t.wave_peak)
                              \div REF_PEAKS_AVG]

\* the branch that keeps its count on a mispredict
FullCycle_keeps_count(t, d) ==
    LET b == IF t.wave_peak + t.half_peak > t.ref_level THEN 1 ELSE 0
        mask == (2 ^ d.bits) - 1
        timecode == IF t.forwards = 1 THEN fwd(t.timecode, d)
                    ELSE rev(t.timecode, d)
        bitstream == IF t.forwards = 1
                     THEN Shr(t.bitstream, 1) + Shl(b, d.bits - 1)
                     ELSE BitAnd(Shl(t.bitstream, 1), mask) + b
    IN  [t EXCEPT
           !.bitstream = bitstream,
           !.timecode = IF timecode = bitstream THEN timecode ELSE bitstream,
           !.valid_counter = IF timecode = bitstream
                             THEN t.valid_counter + 1 ELSE t.valid_counter,
           !.timecode_ticker = 0,
           !.ref_level = IF t.ref_level = -1
                         THEN t.half_peak + t.wave_peak
                         ELSE (t.ref_level * (REF_PEAKS_AVG - 1)
                               + t.half_peak + t.wave_peak)
                              \div REF_PEAKS_AVG]

\* the branch of a completed wave cycle: slice the bit, shift it in, compare
FullCycle(t, d) ==
    LET b == IF t.wave_peak + t.half_peak > t.ref_level THEN 1 ELSE 0
        mask == (2 ^ d.bits) - 1
        timecode == IF t.forwards = 1 THEN fwd(t.timecode, d)
                    ELSE rev(t.timecode, d)
        bitstream == IF t.forwards = 1
                     THEN Shr(t.bitstream, 1) + Shl(b, d.bits - 1)
                     ELSE BitAnd(Shl(t.bitstream, 1), mask) + b
    IN  [t EXCEPT
           !.bitstream = bitstream,
           !.timecode = IF timecode = bitstream THEN timecode ELSE bitstream,
           !.valid_counter = IF timecode = bitstream
                             THEN t.valid_counter + 1 ELSE 0,
           !.timecode_ticker = 0,
           !.ref_level = IF t.ref_level = -1
                         THEN t.half_peak + t.wave_peak
                         ELSE (t.ref_level * (REF_PEAKS_AVG - 1)
                               + t.half_peak + t.wave_peak)
                              \div REF_PEAKS_AVG]

\* the block counting every swap as a forward one
Swapped_always_up(t, d) ==
    LET t1 == IF t.mono.positive = Xor(d.polarity, t.forwards)
              THEN [t EXCEPT !.half_peak = t.wave_peak]
              ELSE FullCycle(t, d)
        forwards == IF t.channel[1].crossing_ticker
                          > t.channel[2].crossing_ticker
                    THEN 1 ELSE 0
    IN  [t1 EXCEPT
           !.forwards = forwards,
           !.crossings = t.crossings + 1,
           !.pitch_ticker = t.pitch_ticker + t.crossing_ticker,
           !.crossing_ticker = 0,
           !.wave_peak = 0]

\* the block taking equal channel tickers for forward play
Swapped_ties_forward(t, d) ==
    LET t1 == IF t.mono.positive = Xor(d.polarity, t.forwards)
              THEN [t EXCEPT !.half_peak = t.wave_peak]
              ELSE FullCycle(t, d)
        forwards == IF t.channel[1].crossing_ticker
                          >= t.channel[2].crossing_ticker
                    THEN 1 ELSE 0
    IN  [t1 EXCEPT
           !.forwards = forwards,
           !.crossings = IF forwards = 1 THEN t.crossings + 1
                         ELSE t.crossings - 1,
           !.pitch_ticker = t.pitch_ticker + t.crossing_ticker,
           !.crossing_ticker = 0,
           !.wave_peak = 0]

\* the block taking the start of the second half for the completion
Swapped_halves_exchanged(t, d) ==
    LET t1 == IF t.mono.positive # Xor(d.polarity, t.forwards)
              THEN [t EXCEPT !.half_peak = t.wave_peak]
              ELSE FullCycle(t, d)
        forwards == IF t.channel[1].crossing_ticker
                          > t.channel[2].crossing_ticker
                    THEN 1 ELSE 0
    IN  [t1 EXCEPT
           !.forwards = forwards,
           !.crossings = IF forwards = 1 THEN t.crossings + 1
                         ELSE t.crossings - 1,
           !.pitch_ticker = t.pitch_ticker + t.crossing_ticker,
           !.crossing_ticker = 0,
           !.wave_peak = 0]

\* the if (swapped) block
Swapped(t, d) ==
    LET t1 == IF t.mono.positive = Xor(d.polarity, t.forwards)
              THEN [t EXCEPT !.half_peak = t.wave_peak]
              ELSE FullCycle(t, d)
        forwards == IF t.channel[1].crossing_ticker
                          > t.channel[2].crossing_ticker
                    THEN 1 ELSE 0
    IN  [t1 EXCEPT
           !.forwards = forwards,
           !.crossings = IF forwards = 1 THEN t.crossings + 1
                         ELSE t.crossings - 1,
           !.pitch_ticker = t.pitch_ticker + t.crossing_ticker,
           !.crossing_ticker = 0,
           !.wave_peak = 0]

\* one pass of the for loop over the samples, on the frame (l, r)
Sample(t, d, l, r) ==
    LET c0 == detect_zero_crossing(t.channel[1], l, t.zero_alpha)
        c1 == detect_zero_crossing(t.channel[2], r, t.zero_alpha)
        g == l + r
        mo == detect_zero_crossing(t.mono, ToShort(g), t.zero_alpha)
        t0 == [t EXCEPT !.channel = <<c0.ch, c1.ch>>, !.mono = mo.ch]
        t1 == IF mo.swapped THEN Swapped(t0, d) ELSE t0
        m == Abs(g - t1.mono.zero)
    IN  [t1 EXCEPT
           !.crossing_ticker = t1.crossing_ticker + 1,
           !.timecode_ticker = t1.timecode_ticker + 1,
           !.wave_peak = Max(m, t1.wave_peak),
           !.signal_level = Filter(t1.signal_level, m, t1.signal_alpha)]

RECURSIVE Samples(_, _, _)
Samples(t, d, pcm) ==
    IF pcm = << >> THEN t
    ELSE Samples(Sample(t, d, pcm[1][1], pcm[1][2]), d, Tail(pcm))

\* timecoder_submit on a block of frames.  The picture drawn into an
\* attached monitor buffer is not part of the model.
timecoder_submit(pcm, rate) ==
    /\ tc' = Samples(set_sample_rate(tc, rate), ActiveDef, pcm)
    /\ ret' = [op |-> "submit", val |-> 0]
    /\ UNCHANGED <<timecode_def, def>>

\* the pitch is rate * crossings / pitch_ticker / (resolution * 2), kept
\* as a fraction; a float division by 0 gives an infinity of num's sign
timecoder_get_pitch ==
    /\ IF tc.crossings = 0
       THEN /\ ret' = [op |-> "get_pitch", val |-> -1]
            /\ tc' = tc
       ELSE /\ ret' = [op |-> "get_pitch", val |-> 0,
                       num |-> tc.rate * tc.crossings,
                       den |-> tc.pitch_ticker * (ActiveDef.resolution * 2)]
            /\ tc' = [tc EXCEPT !.crossings = 0, !.pitch_ticker = 0]
    /\ UNCHANGED <<timecode_def, def>>

\* the position reported one checked bit early
Position_one_bit_early(t, d) ==
    IF t.valid_counter >= VALID_BITS /\ d.lookup[t.bitstream] >= 0
    THEN d.lookup[t.bitstream]
    ELSE -1

\* the value timecoder_get_position returns for decoder t
Position(t, d) ==
    IF t.valid_counter > VALID_BITS /\ d.lookup[t.bitstream] >= 0
    THEN d.lookup[t.bitstream]
    ELSE -1

timecoder_get_position(when) ==
    /\ ret' = IF Position(tc, ActiveDef) >= 0 /\ when
              THEN [op |-> "get_position", val |-> Position(tc, ActiveDef),
                    when |-> tc.timecode_ticker \div tc.rate]
              ELSE [op |-> "get_position", val |-> Position(tc, ActiveDef)]
    /\ UNCHANGED <<timecode_def, def, tc>>

timecoder_get_alive ==
    /\ ret' = [op |-> "get_alive",
               val |-> IF tc.signal_level < SIGNAL_THRESHOLD THEN 0 ELSE 1]
    /\ UNCHANGED <<timecode_def, def, tc>>

timecoder_monitor_init ==
    /\ tc' = [tc EXCEPT !.mon = "buffer"]
    /\ ret' = [op |-> "monitor_init"]
    /\ UNCHANGED <<timecode_def, def>>

timecoder_monitor_clear(t) == [t EXCEPT !.mon = "NULL"]

timecoder_clear ==
    /\ tc' = timecoder_monitor_clear(tc)
    /\ ret' = [op |-> "clear"]
    /\ UNCHANGED <<timecode_def, def>>

(***************************************************************************)
(* Setup: the LFSR steps and the table builder on their own.               *)
(***************************************************************************)
NoDecoder == [state |-> "none"]
NoObs == [frames |-> 0]

\* the codes tried on a definition: all of them for a scaled-down one,
\* the ends of the code space and the start of the sequence for a real one
LfsrCodes(d) ==
    IF d.bits <= MaxBits THEN 0 .. (2 ^ d.bits - 1)
    ELSE (0 .. MaxCode)
         \cup { (2 ^ d.bits - 1) - c : c \in 0 .. MaxCode }
         \cup { FwdIter(d.seed, d, n) : n \in 0 .. MaxIter }

\* one step of the LFSR each way from code x of definition i, and back
LfsrStep(i, x) ==
    LET d == timecode_def[i]
    IN  /\ ret.op = "none"
        /\ ret' = [op |-> "lfsr", def |-> i, x |-> x,
                   f |-> fwd(x, d), r |-> rev(x, d),
                   rf |-> rev(fwd(x, d), d), fr |-> fwd(rev(x, d), d)]
        /\ UNCHANGED <<timecode_def, def, tc, obs>>

\* the names a caller may pass: building a real definition's table is
\* beyond explicit enumeration, so on the real table only the miss is run
BuildNames(tab) ==
    IF tab = SourceDefs THEN {"unknown"}
    ELSE {tab[i].name : i \in 1 .. Len(tab)} \cup {"unknown"}

SetupInit ==
    /\ timecode_def \in
           {SourceDefs}
           \cup {t \in ScaledTables({POLARITY_POSITIVE}) : WellFormedTable(t)}
    /\ def = 0
    /\ tc = NoDecoder
    /\ ret = [op |-> "none"]
    /\ obs = NoObs

SetupLfsr ==
    \E i \in 1 .. Len(timecode_def) :
        \E x \in LfsrCodes(timecode_def[i]) : LfsrStep(i, x)

SetupBuild ==
    \E nm \in BuildNames(timecode_def) :
        \E mallocOk \in BOOLEAN : timecoder_build_lookup(nm, mallocOk)

SetupNext == SetupLfsr \/ SetupBuild

SpecSetup == SetupInit /\ [][SetupNext]_vars

(***************************************************************************)
(* Properties of the setup.                                                *)
(***************************************************************************)
\* the n-th code of a definition's sequence
CodeAt(d, n) == FwdIter(d.seed, d, n)

\* the steps of the build at which the code had been seen before
Repeats(d) ==
    { j \in 0 .. (d.length - 1) :
        \E i \in 0 .. (j - 1) : CodeAt(d, i) = CodeAt(d, j) }

FirstRepeat(d) ==
    CHOOSE j \in Repeats(d) : \A k \in Repeats(d) : j <= k

Filled(lookup) == { c \in DOMAIN lookup : lookup[c] # -1 }

\* a build that was given memory and ran its loop on a known definition
BuiltKnown ==
    /\ ret.op = "build_lookup"
    /\ def \in 1 .. Len(timecode_def)
    /\ ActiveDef.lookup # NULL

\* C1: the forward and the reverse LFSR step are inverse to each other on
\* every code tried, for the real definitions and the scaled-down ones, and
\* the assertion of the builder never fails.
C1_LfsrRoundTrip ==
    /\ ret.op = "lfsr" => ret.rf = ret.x /\ ret.fr = ret.x
    /\ ret.op # "abort"

C1_Witness ==
    /\ ret.op = "lfsr"
    /\ timecode_def[ret.def].bits = 23
    /\ ret.x = timecode_def[ret.def].seed
    /\ ret.f # ret.x /\ ret.r # ret.x /\ ret.f # ret.r
    /\ ret.rf = ret.x /\ ret.fr = ret.x

\* C2: after a successful build exactly length slots are filled, with the
\* indices 0 .. length-1, the n-th code of the sequence holding n, and
\* every other slot holds -1.
C2_LookupCoverage ==
    (BuiltKnown /\ ret.val = 0) =>
        LET d == ActiveDef
        IN  /\ Cardinality(Filled(d.lookup)) = d.length
            /\ { d.lookup[c] : c \in Filled(d.lookup) } = 0 .. (d.length - 1)
            /\ \A n \in 0 .. (d.length - 1) : d.lookup[CodeAt(d, n)] = n
            /\ \A c \in DOMAIN d.lookup :
                   c \notin { CodeAt(d, n) : n \in 0 .. (d.length - 1) }
                       => d.lookup[c] = -1

C2_Witness ==
    /\ BuiltKnown /\ ret.val = 0
    /\ ActiveDef.bits = 3 /\ ActiveDef.length = 7
    /\ Cardinality(Filled(ActiveDef.lookup)) = 7
    /\ ActiveDef.lookup[0] = -1

\* C3: with memory, the build of a known definition fails exactly when a
\* code repeats among the first length codes; it then stops at the first
\* repeat with the slots of the earlier codes as they were written.
C3_LookupWrap ==
    BuiltKnown =>
        LET d == ActiveDef
        IN  /\ (ret.val = -1) <=> (Repeats(d) # {})
            /\ (ret.val = 0) <=> (Repeats(d) = {})
            /\ Repeats(d) # {} =>
                   LET j == FirstRepeat(d)
                   IN  /\ \A n \in 0 .. (j - 1) : d.lookup[CodeAt(d, n)] = n
                       /\ Cardinality(Filled(d.lookup)) = j

C3_Witness ==
    /\ BuiltKnown /\ ret.val = -1
    /\ ActiveDef.bits = 3 /\ ActiveDef.length = 8
    /\ FirstRepeat(ActiveDef) = 7
    /\ Cardinality(Filled(ActiveDef.lookup)) = 7

\* C4: every setup failure is reported by a value other than the success
\* value: 0 is returned only when the definition was found and its table
\* was built completely.
C4_ErrorsReported ==
    (ret.op = "build_lookup" /\ ret.val = 0) =>
        /\ def \in 1 .. Len(timecode_def)
        /\ ActiveDef.lookup # NULL
        /\ Cardinality(Filled(ActiveDef.lookup)) = ActiveDef.length

(***************************************************************************)
(* The decoder fed frame by frame.                                         *)
(***************************************************************************)
\* The tables the decoder runs on: like the real ones, the sequence of
\* length codes neither repeats nor closes (the code after the last one and
\* the code before the seed are not in the table).
Built(tab, i) ==
    [tab EXCEPT ![i].lookup =
        BuildLoop(tab[i], FreshLookup(tab[i]), tab[i].seed, 0).lookup]

OpenEnded(d) ==
    /\ Repeats(d) = {}
    /\ \A n \in 0 .. (d.length - 1) :
           /\ CodeAt(d, n) # CodeAt(d, d.length)
           /\ CodeAt(d, n) # rev(d.seed, d)

DecoderTables ==
    { Built(ScaledTable(3, 2, 5, 5, POLARITY_POSITIVE), 1),
      Built(ScaledTable(3, 4, 3, 4, POLARITY_NEGATIVE), 1) }

\* the sample values of a channel, and the stereo frames made of them
\* the four quadrants of a stereo wave just past the detectors' threshold
\* (v >= 128 going up, v < -128 going down), and silence
Levels == {-129, 128}
Frames == { <<l, r>> : l \in Levels, r \in Levels } \cup { <<0, 0>> }
Rates == {1000, 384000}

\* what the frame <<l, r>> does to the detectors of decoder t
MonoSwaps(t, f) ==
    detect_zero_crossing(t.mono, ToShort(f[1] + f[2]), t.zero_alpha).swapped
LeftLeads(t, f) ==
    detect_zero_crossing(t.channel[1], f[1], t.zero_alpha).ch.crossing_ticker
      > detect_zero_crossing(t.channel[2], f[2],
                             t.zero_alpha).ch.crossing_ticker
AnySwaps(t, f) ==
    \/ MonoSwaps(t, f)
    \/ detect_zero_crossing(t.channel[1], f[1], t.zero_alpha).swapped
    \/ detect_zero_crossing(t.channel[2], f[2], t.zero_alpha).swapped

\* whether the mono swap that frame f causes completes a wave cycle
CompletesCycle(t, d, f) ==
    /\ MonoSwaps(t, f)
    /\ detect_zero_crossing(t.mono, ToShort(f[1] + f[2]),
                            t.zero_alpha).ch.positive
         # Xor(d.polarity, t.forwards)

\* what the last frame did: no mono swap ("none"), the start of a second
\* half ("half") or a completed cycle ("full"), with the direction and the
\* bitstream it found
NoSwap == [kind |-> "none", forwards |-> 0, bitstream |-> 0]

LastSwap(t, d, f) ==
    IF ~MonoSwaps(t, f) THEN NoSwap
    ELSE [kind |-> IF CompletesCycle(t, d, f) THEN "full" ELSE "half",
          forwards |-> t.forwards, bitstream |-> t.bitstream]

\* the observer: frames fed, whether all of them were silence and whether a
\* detector ever swapped; the mono swaps since the last drain of the pitch
\* and how many of them found the left channel leading; the last frame
InitObs ==
    [frames |-> 0, silent |-> TRUE, swapped |-> FALSE,
     swaps |-> 0, lead |-> 0, drains |-> 0, last |-> NoSwap]

ObsFrame(o, t, d, f) ==
    [o EXCEPT
       !.frames = o.frames + 1,
       !.last = LastSwap(t, d, f),
       !.silent = o.silent /\ f = <<0, 0>>,
       !.swapped = o.swapped \/ AnySwaps(t, f),
       !.swaps = IF MonoSwaps(t, f) THEN o.swaps + 1 ELSE o.swaps,
       !.lead = IF MonoSwaps(t, f) /\ LeftLeads(t, f)
                THEN o.lead + 1 ELSE o.lead]

ObsDrain(o, t) ==
    IF t.crossings = 0 THEN o
    ELSE [o EXCEPT !.swaps = 0, !.lead = 0, !.drains = 1]

Init ==
    /\ timecode_def \in DecoderTables
    /\ def = 1
    /\ \E garbage \in (-MaxGarbage) .. MaxGarbage : tc = timecoder_init(garbage)
    /\ ret = [op |-> "init"]
    /\ obs = InitObs

\* the sample rate is the device's: the same in every call
Submit ==
    /\ obs.frames < MaxFrames
    /\ \E f \in Frames :
         \E rate \in IF tc.rate = 0 THEN Rates ELSE {tc.rate} :
            /\ timecoder_submit(<<f>>, rate)
            /\ obs' = ObsFrame(obs, set_sample_rate(tc, rate), ActiveDef, f)

GetPitch == timecoder_get_pitch /\ obs' = ObsDrain(obs, tc)

GetPosition ==
    /\ tc.rate > 0
    /\ \E when \in BOOLEAN : timecoder_get_position(when)
    /\ UNCHANGED obs

GetAlive == timecoder_get_alive /\ UNCHANGED obs

Next ==
    \/ Submit
    \/ GetPitch
    \/ GetPosition
    \/ GetAlive

Spec == Init /\ [][Next]_vars

(***************************************************************************)
(* The decoder fed frame by frame on memory that held zeros: its own       *)
(* sample counter tc->crossing_ticker starts at 0.                         *)
(***************************************************************************)
ZeroInit ==
    /\ Init
    /\ tc.crossing_ticker = 0

SpecZero == ZeroInit /\ [][Next]_vars

(***************************************************************************)
(* The decoder fed silence, with its monitor attached and cleared.         *)
(***************************************************************************)
SubmitSilence ==
    /\ ret.op # "clear"
    /\ obs.frames < MaxSilence
    /\ \E rate \in IF tc.rate = 0 THEN Rates ELSE {tc.rate} :
          /\ timecoder_submit(<<<<0, 0>>>>, rate)
          /\ obs' = ObsFrame(obs, set_sample_rate(tc, rate), ActiveDef,
                             <<0, 0>>)

SilenceGetPitch == ret.op # "clear" /\ GetPitch

SilenceGetPosition == ret.op # "clear" /\ GetPosition

SilenceGetAlive == ret.op # "clear" /\ GetAlive

MonitorInit ==
    /\ ret.op # "clear"
    /\ timecoder_monitor_init
    /\ UNCHANGED obs

\* the decoder is not used after it was cleared
Clear ==
    /\ ret.op # "clear"
    /\ timecoder_clear
    /\ UNCHANGED obs

SilenceNext ==
    \/ SubmitSilence
    \/ SilenceGetPitch
    \/ SilenceGetPosition
    \/ SilenceGetAlive
    \/ MonitorInit
    \/ Clear

SpecSilence == Init /\ [][SilenceNext]_vars

(***************************************************************************)
(* The decoder fed half waves: after the thump of the stylus landing, a    *)
(* stereo square wave in quadrature just past the detectors' threshold,    *)
(* the left channel leading when the record plays forwards.                *)
(***************************************************************************)
\* a sample of sign s (1 or -1) that takes a detector resting at zero
\* across its threshold: v >= 128 going up, v < -128 going down
Edge(s) == IF s = 1 THEN ZERO_THRESHOLD ELSE -(ZERO_THRESHOLD + 1)

\* the peak of the mono signal in a quiet half wave and in a loud one
QuietPeak == ZERO_THRESHOLD + 1
LoudPeak == ZERO_THRESHOLD + 2

\* the half wave of sign s: the leading channel changes sign in the first
\* frame, the other one in the second, where the leading channel has come
\* back towards zero and the two add up to the peak
HalfWave(forwards, s, peak) ==
    IF forwards
    THEN << <<Edge(s), Edge(-s)>>, <<s * peak - Edge(s), Edge(s)>> >>
    ELSE << <<Edge(-s), Edge(s)>>, <<Edge(s), s * peak - Edge(s)>> >>

\* the negative half of a cycle carries its bit: loud for a one
HalfWaves ==
    { HalfWave(fw, 1, QuietPeak) : fw \in BOOLEAN }
      \cup { HalfWave(fw, -1, peak) : fw \in BOOLEAN,
                                      peak \in {QuietPeak, LoudPeak} }

\* the stylus lands: a thump below zero as large as the peaks of a quiet
\* cycle, and the first cycle of the record playing forwards
LeadIn ==
    << <<-QuietPeak, -QuietPeak>> >>
      \o HalfWave(TRUE, 1, QuietPeak) \o HalfWave(TRUE, -1, QuietPeak)

\* at this rate the filters do not move at these levels
WaveRates == {384000}

Capped(t) ==
    /\ t.valid_counter <= VALID_BITS + 1 + MaxExtra
    /\ t.crossings \in (-MaxCrossings) .. MaxCrossings
    /\ t.timecode_ticker <= MaxTicker
    /\ t.pitch_ticker <= MaxTicker
    /\ t.crossing_ticker <= MaxTicker
    /\ t.mono.crossing_ticker <= MaxTicker
    /\ t.channel[1].crossing_ticker <= MaxTicker
    /\ t.channel[2].crossing_ticker <= MaxTicker

\* the observer of a half wave: the mono swap of its second frame, with the
\* direction and the position it found
ObsWave(o, t, d, pcm) ==
    LET t1 == Sample(t, d, pcm[1][1], pcm[1][2])
        last == LastSwap(t1, d, pcm[2])
    IN  [o EXCEPT !.last = [kind |-> last.kind, forwards |-> last.forwards,
                            position |-> Position(t, d)]]

SubmitLeadIn ==
    /\ ret.op = "init"
    /\ \E rate \in WaveRates : timecoder_submit(LeadIn, rate)
    /\ UNCHANGED obs

SubmitWave ==
    /\ ret.op # "init"
    /\ \E pcm \in HalfWaves :
          /\ timecoder_submit(pcm, tc.rate)
          /\ Capped(tc')
          /\ obs' = ObsWave(obs, tc, ActiveDef, pcm)

WaveGetPitch ==
    /\ ret.op # "init"
    /\ timecoder_get_pitch
    /\ UNCHANGED obs

WaveGetPosition ==
    /\ ret.op # "init"
    /\ \E when \in BOOLEAN : timecoder_get_position(when)
    /\ UNCHANGED obs

\* the record's definition is of the polarity of the registry's, and like
\* them its sequence ends before it comes back to its seed
WaveInit ==
    /\ Init
    /\ ActiveDef.polarity = POLARITY_POSITIVE
    /\ OpenEnded(ActiveDef)

WaveNext ==
    \/ SubmitLeadIn
    \/ SubmitWave
    \/ WaveGetPitch
    \/ WaveGetPosition

SpecWave == WaveInit /\ [][WaveNext]_vars

(***************************************************************************)
(* The three detectors watched sample by sample: frames at and around the  *)
(* thresholds and at the top of the range, where the mono sum wraps.       *)
(***************************************************************************)
DetectLevels == {-ZERO_THRESHOLD - 1, -ZERO_THRESHOLD, 0, ZERO_THRESHOLD, 32767}

\* the mono detector and the two channels' of decoder t
Detectors(t) == <<t.mono, t.channel[1], t.channel[2]>>

\* the sample each detector is passed on frame f
DetectorInputs(f) == <<ToShort(f[1] + f[2]), f[1], f[2]>>

\* the observer: the frames fed, the last one's samples, the detectors
\* before it, what each returned on it and the samples since each one last
\* returned a swap
DetectObs(o, t, f) ==
    LET returned == [c \in 1 .. 3 |->
                       detect_zero_crossing(Detectors(t)[c],
                                            DetectorInputs(f)[c],
                                            t.zero_alpha).swapped]
    IN  [frames |-> o.frames + 1,
         v |-> DetectorInputs(f),
         before |-> Detectors(t),
         swapped |-> returned,
         since |-> [c \in 1 .. 3 |->
                      IF returned[c] THEN 0 ELSE o.since[c] + 1]]

DetectInit ==
    /\ timecode_def \in DecoderTables
    /\ def = 1
    /\ \E garbage \in (-MaxGarbage) .. MaxGarbage : tc = timecoder_init(garbage)
    /\ ret = [op |-> "init"]
    /\ obs = [frames |-> 0, v |-> <<0, 0, 0>>,
              before |-> Detectors(tc),
              swapped |-> [c \in 1 .. 3 |-> FALSE],
              since |-> [c \in 1 .. 3 |-> 0]]

SubmitDetect ==
    /\ obs.frames < MaxDetect
    /\ \E l \in DetectLevels, r \in DetectLevels :
         \E rate \in IF tc.rate = 0 THEN Rates ELSE {tc.rate} :
            /\ timecoder_submit(<< <<l, r>> >>, rate)
            /\ obs' = DetectObs(obs, set_sample_rate(tc, rate), <<l, r>>)

DetectNext == SubmitDetect

SpecDetect == DetectInit /\ [][DetectNext]_vars

(***************************************************************************)
(* The wave cycles counted: the decoder fed frame by frame, with every     *)
(* mono swap and every bit counted.                                        *)
(***************************************************************************)
\* the observer: the frames fed; the kind of the last mono swap and the
\* direction it found; the mono swaps and the bits decoded so far; whether
\* every swap left the direction as it found it
CycleObs(o, t, d, f) ==
    LET last == LastSwap(t, d, f)
        t1 == Sample(t, d, f[1], f[2])
    IN  IF last.kind = "none" THEN [o EXCEPT !.frames = o.frames + 1]
        ELSE [frames |-> o.frames + 1,
              prev |-> [kind |-> last.kind, forwards |-> last.forwards],
              swaps |-> o.swaps + 1,
              bits |-> IF last.kind = "full" THEN o.bits + 1 ELSE o.bits,
              steady |-> o.steady /\ t1.forwards = t.forwards]

CycleInit ==
    /\ timecode_def \in DecoderTables
    /\ def = 1
    /\ \E garbage \in (-MaxGarbage) .. MaxGarbage : tc = timecoder_init(garbage)
    /\ ret = [op |-> "init"]
    /\ obs = [frames |-> 0, prev |-> [kind |-> "none", forwards |-> 0],
              swaps |-> 0, bits |-> 0, steady |-> TRUE]

SubmitCycle ==
    /\ obs.frames < MaxFrames
    /\ \E f \in Frames :
         \E rate \in IF tc.rate = 0 THEN Rates ELSE {tc.rate} :
            /\ timecoder_submit(<<f>>, rate)
            /\ obs' = CycleObs(obs, set_sample_rate(tc, rate), ActiveDef, f)

CycleNext == SubmitCycle

SpecCycle == CycleInit /\ [][CycleNext]_vars

(***************************************************************************)
(* The pitch window measured: the decoder fed frame by frame and drained,  *)
(* with the samples between its mono swaps counted.                        *)
(***************************************************************************)
\* the observer: the frames fed; whether a mono swap has happened; the
\* samples processed since the last mono swap; the samples between the last
\* mono swap before the last drain (or the first mono swap) and the last
\* mono swap
PitchObs(o, t, f) ==
    IF ~MonoSwaps(t, f)
    THEN [o EXCEPT !.frames = o.frames + 1, !.since = o.since + 1]
    ELSE [frames |-> o.frames + 1,
          swapped |-> TRUE,
          since |-> 0,
          window |-> IF o.swapped THEN o.window + o.since + 1 ELSE 0]

PitchInit ==
    /\ timecode_def \in DecoderTables
    /\ def = 1
    /\ \E garbage \in (-MaxGarbage) .. MaxGarbage : tc = timecoder_init(garbage)
    /\ ret = [op |-> "init"]
    /\ obs = [frames |-> 0, swapped |-> FALSE, since |-> 0, window |-> 0]

SubmitPitch ==
    /\ obs.frames < MaxFrames
    /\ \E f \in Frames :
         \E rate \in IF tc.rate = 0 THEN Rates ELSE {tc.rate} :
            /\ timecoder_submit(<<f>>, rate)
            /\ obs' = PitchObs(obs, set_sample_rate(tc, rate), f)

DrainPitch ==
    /\ timecoder_get_pitch
    /\ obs' = IF tc.crossings = 0 THEN obs ELSE [obs EXCEPT !.window = 0]

PitchNext ==
    \/ SubmitPitch
    \/ DrainPitch

SpecPitch == PitchInit /\ [][PitchNext]_vars

(***************************************************************************)
(* The record played: after the lead-in and some scratching, half waves    *)
(* carrying the bits of the definition's sequence from some code on, with  *)
(* the needle skipping to another code.                                    *)
(***************************************************************************)
\* a definition of 6 bits whose sequence has the full period of 63
RecordTable == Built(ScaledTable(6, 2, 21, 35, POLARITY_POSITIVE), 1)

\* the bits a relock takes: those that fill the bitstream and those counted
RelockBits(d) == d.bits + VALID_BITS + 1

\* the codes the record can be played from and still be relocked on
RecordStarts(d) == 0 .. (d.length - RelockBits(d) - 1)

\* the top bit of the j-th code after code k: the j-th bit of the record
\* played forwards from k
RecordBit(d, k, j) == CodeAt(d, k + j) \div (2 ^ (d.bits - 1))

\* the next half wave of the record played forwards from code k with
\* fed bits decoded: the negative half carries the bit
RecordWave(t, d, k, fed) ==
    IF t.mono.positive = 1
    THEN HalfWave(TRUE, -1, IF RecordBit(d, k, fed + 1) = 1
                            THEN LoudPeak ELSE QuietPeak)
    ELSE HalfWave(TRUE, 1, QuietPeak)

\* the observer of the record played from k: the bits sliced forwards off
\* it, as the levels had them, and the mispredicts among them; it turns off
\* when a cycle was sliced in reverse or not as the record has it
RecordObs(o, t, d, k, fed, pcm) ==
    LET t1 == Sample(t, d, pcm[1][1], pcm[1][2])
        last == LastSwap(t1, d, pcm[2])
        t2 == Sample(t1, d, pcm[2][1], pcm[2][2])
        sliced == IF t1.wave_peak + t1.half_peak > t1.ref_level
                  THEN 1 ELSE 0
        missed == IF fed = 0 THEN 0 ELSE o.missed
    IN  IF last.kind # "full"
        THEN [o EXCEPT !.phase = "play", !.k = k, !.fed = fed,
                       !.missed = missed]
        ELSE IF last.forwards = 1 /\ sliced = RecordBit(d, k, fed + 1)
        THEN [o EXCEPT !.phase = "play", !.k = k, !.fed = fed + 1,
                       !.missed = IF t2.valid_counter = 0
                                  THEN missed + 1 ELSE missed]
        ELSE [o EXCEPT !.phase = "off"]

RecordInit ==
    /\ timecode_def = RecordTable
    /\ def = 1
    /\ \E garbage \in (-MaxGarbage) .. MaxGarbage : tc = timecoder_init(garbage)
    /\ ret = [op |-> "init"]
    /\ obs = [phase |-> "scratch", blocks |-> 0, skips |-> 0,
              k |-> 0, fed |-> 0, missed |-> 0]

RecordLeadIn ==
    /\ ret.op = "init"
    /\ \E rate \in WaveRates : timecoder_submit(LeadIn, rate)
    /\ UNCHANGED obs

Scratch ==
    /\ ret.op # "init"
    /\ obs.phase = "scratch"
    /\ obs.blocks < MaxScratch
    /\ \E pcm \in HalfWaves : timecoder_submit(pcm, tc.rate)
    /\ obs' = [obs EXCEPT !.blocks = obs.blocks + 1]

\* the needle is set down on code k while the decoder plays forwards, in
\* the positive half of a cycle
StartPlay ==
    /\ ret.op # "init"
    /\ obs.phase = "scratch"
    /\ tc.forwards = 1 /\ tc.mono.positive = 1
    /\ \E k \in RecordStarts(ActiveDef) :
          LET pcm == RecordWave(tc, ActiveDef, k, 0)
          IN  /\ timecoder_submit(pcm, tc.rate)
              /\ obs' = RecordObs(obs, tc, ActiveDef, k, 0, pcm)

Play ==
    /\ obs.phase = "play"
    /\ obs.fed < RelockBits(ActiveDef)
    /\ LET pcm == RecordWave(tc, ActiveDef, obs.k, obs.fed)
       IN  /\ timecoder_submit(pcm, tc.rate)
           /\ obs' = RecordObs(obs, tc, ActiveDef, obs.k, obs.fed, pcm)

\* the needle skips to code k once the bitstream is filled or the decoder
\* has relocked
Skip ==
    /\ obs.phase = "play"
    /\ obs.skips < MaxSkips
    /\ obs.fed \in {ActiveDef.bits, RelockBits(ActiveDef)}
    /\ tc.forwards = 1 /\ tc.mono.positive = 1
    /\ \E k \in RecordStarts(ActiveDef) :
          LET pcm == RecordWave(tc, ActiveDef, k, 0)
          IN  /\ timecoder_submit(pcm, tc.rate)
              /\ obs' = RecordObs([obs EXCEPT !.skips = obs.skips + 1],
                                  tc, ActiveDef, k, 0, pcm)

RecordGetPosition ==
    /\ obs.phase = "play"
    /\ obs.fed = RelockBits(ActiveDef)
    /\ timecoder_get_position(TRUE)
    /\ UNCHANGED obs

RecordNext ==
    \/ RecordLeadIn
    \/ Scratch
    \/ StartPlay
    \/ Play
    \/ Skip
    \/ RecordGetPosition

SpecRecord == RecordInit /\ [][RecordNext]_vars

(***************************************************************************)
(* Properties of the decoder fed frame by frame.                           *)
(***************************************************************************)
\* C6: bitstream and timecode stay below 2^bits of the active definition in
\* every state reached by submitting frames and querying.
C6_BitstreamWidth ==
    /\ tc.bitstream \in 0 .. (2 ^ ActiveDef.bits - 1)
    /\ tc.timecode \in 0 .. (2 ^ ActiveDef.bits - 1)

\* a cycle completed in reverse shifted a set top bit out of the bitstream
C6_Witness ==
    /\ obs.last.kind = "full" /\ obs.last.forwards = 0
    /\ obs.last.bitstream >= 2 ^ (ActiveDef.bits - 1)
    /\ ret.op = "submit"
    /\ tc.bitstream < 2 ^ ActiveDef.bits

Sign(x) == IF x > 0 THEN 1 ELSE IF x < 0 THEN -1 ELSE 0

\* the sign of the float a get_pitch call stored: the quotient num / den,
\* an infinity of num's sign when den is 0
PitchSign(r) == IF r.den = 0 THEN Sign(r.num) ELSE Sign(r.num) * Sign(r.den)

\* C7: get_pitch returns absent exactly when crossings is 0 and then leaves
\* the decoder as it is; otherwise it returns a pitch of the sign of
\* crossings and resets crossings and pitch_ticker, so that a second call
\* returns absent.
C7_GetPitch ==
    [][ret'.op = "get_pitch" =>
          /\ tc.crossings = 0 => ret'.val = -1 /\ tc' = tc
          /\ tc.crossings # 0 =>
                /\ ret'.val = 0
                /\ PitchSign(ret') = Sign(tc.crossings)
                /\ tc'.crossings = 0 /\ tc'.pitch_ticker = 0
                /\ tc' = [tc EXCEPT !.crossings = 0, !.pitch_ticker = 0]]_vars

\* C10: while every mono swap since the last drain found the left channel
\* leading, crossings is the number of those swaps; while none did, it is
\* minus that number.
C10_CrossingsCount ==
    /\ obs.lead = obs.swaps => tc.crossings = obs.swaps
    /\ obs.lead = 0 => tc.crossings = -obs.swaps

C10_Witness ==
    /\ obs.drains = 1
    /\ obs.swaps >= 2 /\ obs.lead = obs.swaps
    /\ tc.crossings = obs.swaps

\* C13: on each completed full cycle the timecode is advanced (fwd when
\* forwards, rev when reverse) and a bit is shifted into the bitstream (at
\* the top when forwards, at the bottom when reverse); if the two are then
\* equal valid_counter grows by 1, otherwise it becomes 0 and timecode
\* becomes the bitstream.  No other sample and no query changes
\* valid_counter.
C13_ValidCounter ==
    [][LET d == ActiveDef
           advanced == IF tc.forwards = 1 THEN fwd(tc.timecode, d)
                       ELSE rev(tc.timecode, d)
           shifted == [b \in {0, 1} |->
                         IF tc.forwards = 1
                         THEN (tc.bitstream \div 2) + b * 2 ^ (d.bits - 1)
                         ELSE ((tc.bitstream * 2) % (2 ^ d.bits)) + b]
       IN  IF ret'.op = "submit" /\ obs'.last.kind = "full"
           THEN \E b \in {0, 1} :
                   /\ tc'.bitstream = shifted[b]
                   /\ IF advanced = shifted[b]
                      THEN /\ tc'.valid_counter = tc.valid_counter + 1
                           /\ tc'.timecode = advanced
                      ELSE /\ tc'.valid_counter = 0
                           /\ tc'.timecode = shifted[b]
           ELSE tc'.valid_counter = tc.valid_counter]_vars

\* a second correct prediction in a row, made in reverse
C13_Witness ==
    /\ ret.op = "submit"
    /\ obs.last.kind = "full" /\ obs.last.forwards = 0
    /\ tc.valid_counter = 2

\* C15: after every mono swap, of either half, forwards is 1 exactly when
\* channel[0].crossing_ticker > channel[1].crossing_ticker, both as the
\* detectors left them on this frame, so equal tickers give reverse; a
\* sample without a mono swap, and a query, leave forwards as it is.
C15_Direction ==
    [][IF tc'.mono.positive # tc.mono.positive
       THEN tc'.forwards = IF tc'.channel[1].crossing_ticker
                                 > tc'.channel[2].crossing_ticker
                           THEN 1 ELSE 0
       ELSE tc'.forwards = tc.forwards]_vars

\* a mono swap found both channels as long past their swaps and turned a
\* decoder playing forwards to reverse
C15_Witness ==
    /\ ret.op = "submit"
    /\ obs.last.kind # "none" /\ obs.last.forwards = 1
    /\ tc.channel[1].crossing_ticker = tc.channel[2].crossing_ticker
    /\ tc.channel[1].crossing_ticker >= 1
    /\ tc.forwards = 0

\* C18: after timecoder_init and after every frame timecode equals
\* bitstream: a completed cycle finds the advanced timecode equal to the
\* new bitstream or overwrites it, and nothing else writes either.
C18_TimecodeIsBitstream == tc.timecode = tc.bitstream

\* a completed cycle mispredicted, and the timecode was overwritten
C18_Witness ==
    /\ ret.op = "submit"
    /\ obs.last.kind = "full"
    /\ tc.bitstream # IF obs.last.forwards = 1
                      THEN fwd(obs.last.bitstream, ActiveDef)
                      ELSE rev(obs.last.bitstream, ActiveDef)
    /\ tc.bitstream # 0
    /\ tc.timecode = tc.bitstream
    /\ tc.valid_counter = 0

\* C20: with tc->crossing_ticker starting at 0, between submitted blocks
\* crossings # 0 implies pitch_ticker > 0, so that get_pitch never divides
\* by zero when it reports a pitch, also when the first frame submitted
\* causes a mono swap.
C20_PitchDefined == tc.crossings # 0 => tc.pitch_ticker > 0

(***************************************************************************)
(* Properties of the pitch window measured.                                *)
(***************************************************************************)
\* C16: at every mono swap after the first pitch_ticker grows by the number
\* of samples processed since the previous mono swap, and no other sample
\* changes it; so at every drain pitch_ticker is the number of samples
\* between the last mono swap before the previous drain (or the first mono
\* swap) and the last mono swap before this drain.
C16_PitchWindow ==
    [][/\ ret'.op = "submit" =>
            IF tc'.mono.positive # tc.mono.positive
            THEN obs.swapped =>
                    tc'.pitch_ticker = tc.pitch_ticker + obs.since + 1
            ELSE tc'.pitch_ticker = tc.pitch_ticker
       /\ (ret'.op = "get_pitch" /\ tc.crossings # 0) =>
            tc.pitch_ticker = obs.window]_vars

(***************************************************************************)
(* Properties of the wave cycles counted.                                  *)
(***************************************************************************)
\* C14: on a mono swap, if the new mono.positive equals polarity XOR
\* forwards, forwards being as it was before this swap's direction
\* inference, only half_peak is set, to wave_peak, and no bit is sliced;
\* otherwise exactly one bit is sliced.  After a swap that left the
\* direction as it found it the next swap is of the other kind, and while
\* no swap changes the direction every second swap decodes a bit.
C14_OneBitPerCycle ==
    [][tc'.mono.positive # tc.mono.positive =>
         LET d == ActiveDef
             half == tc'.mono.positive = Xor(d.polarity, tc.forwards)
             shifted == [b \in {0, 1} |->
                           IF tc.forwards = 1
                           THEN (tc.bitstream \div 2) + b * 2 ^ (d.bits - 1)
                           ELSE ((tc.bitstream * 2) % (2 ^ d.bits)) + b]
         IN  /\ half => /\ tc'.half_peak = tc.wave_peak
                        /\ tc'.bitstream = tc.bitstream
                        /\ tc'.timecode = tc.timecode
                        /\ tc'.valid_counter = tc.valid_counter
                        /\ tc'.ref_level = tc.ref_level
                        /\ obs'.bits = obs.bits
             /\ ~half => /\ tc'.half_peak = tc.half_peak
                         /\ \E b \in {0, 1} : tc'.bitstream = shifted[b]
                         /\ obs'.bits = obs.bits + 1
             /\ (obs.prev.kind # "none" /\ tc.forwards = obs.prev.forwards)
                   => (half <=> obs.prev.kind = "full")
             /\ obs'.steady =>
                   obs'.bits \in {obs'.swaps \div 2, (obs'.swaps + 1) \div 2}
      ]_vars

\* four mono swaps in one direction decoded two bits, the last one starting
\* a second half
C14_Witness ==
    /\ obs.steady
    /\ obs.swaps = 4 /\ obs.bits = 2
    /\ obs.prev.kind = "half"
    /\ tc.half_peak > 0

(***************************************************************************)
(* Properties of the decoder fed half waves.                               *)
(***************************************************************************)
\* C5: timecoder_get_position returns a value >= 0 exactly when
\* valid_counter > VALID_BITS and lookup[bitstream] is not the sentinel -1,
\* that value is lookup[bitstream], and in every other state it returns -1.
C5_GetPosition ==
    ret.op = "get_position" =>
       LET present == /\ tc.valid_counter > VALID_BITS
                      /\ ActiveDef.lookup[tc.bitstream] # -1
       IN  /\ ret.val >= 0 <=> present
           /\ present => ret.val = ActiveDef.lookup[tc.bitstream]
           /\ ~present => ret.val = -1

\* a locked decoder reported its position
C5_Witness ==
    /\ ret.op = "get_position"
    /\ ret.val >= 0
    /\ tc.valid_counter > VALID_BITS

\* C9: when get_position would return n >= 0 and a full cycle completes
\* with its bit correctly predicted (valid_counter goes up by one), then
\* afterwards it returns n + 1 if the decoder's direction at the completion
\* was forwards and n + 1 < length, and n - 1 if it was reverse and n >= 1;
\* a position present before and after a step of the decoder is the same or
\* that neighbour, so any other jump takes a mispredict and a relock.
C9_PositionFollows ==
    [][LET n == Position(tc, ActiveDef)
           m == Position(tc', ActiveDef)
       IN  /\ (n >= 0 /\ tc'.valid_counter = tc.valid_counter + 1) =>
                 /\ (tc.forwards = 1 /\ n + 1 < ActiveDef.length)
                       => m = n + 1
                 /\ (tc.forwards = 0 /\ n >= 1) => m = n - 1
           /\ (n >= 0 /\ m >= 0 /\ m # n) =>
                 /\ tc'.valid_counter = tc.valid_counter + 1
                 /\ m = IF tc.forwards = 1 THEN n + 1 ELSE n - 1]_vars

\* a locked decoder playing in reverse stepped back from n to n - 1, and
\* reported it
C9_Witness ==
    /\ obs.last.kind = "full" /\ obs.last.forwards = 0
    /\ obs.last.position >= 1
    /\ ret.op = "get_position"
    /\ ret.val = obs.last.position - 1

\* C11: when get_position returns a position and the caller asks for its
\* age, the age stored times the sample rate is timecode_ticker, the samples
\* since the last decoded bit; so the age is not 0 when timecode_ticker > 0.
C11_PositionAge ==
    (ret.op = "get_position" /\ "when" \in DOMAIN ret) =>
        /\ ret.when * tc.rate = tc.timecode_ticker
        /\ tc.timecode_ticker > 0 => ret.when # 0

\* C17: whenever get_position returns a position get_alive returns true:
\* a decoder whose signal_level is below SIGNAL_THRESHOLD reports no
\* position.
C17_LockedAlive ==
    (ret.op = "get_position" /\ ret.val >= 0) =>
        tc.signal_level >= SIGNAL_THRESHOLD

(***************************************************************************)
(* Properties of the detectors.                                            *)
(***************************************************************************)
\* C12: on every sample v a detector returns a swap exactly when positive
\* is false and v >= zero + 128, or positive is true and v < zero - 128,
\* with zero as it was before this sample; on a swap positive toggles and
\* crossing_ticker becomes 0, otherwise positive stays and crossing_ticker
\* grows by 1; crossing_ticker is never negative and is the number of
\* samples since the detector's last swap.
C12_Detector ==
    obs.frames > 0 =>
      \A c \in 1 .. 3 :
         LET before == obs.before[c]
             after == Detectors(tc)[c]
             v == obs.v[c]
             swap == \/ before.positive = 0
                        /\ v >= before.zero + ZERO_THRESHOLD
                     \/ before.positive = 1
                        /\ v < before.zero - ZERO_THRESHOLD
         IN  /\ obs.swapped[c] <=> swap
             /\ swap => /\ after.positive = 1 - before.positive
                        /\ after.crossing_ticker = 0
             /\ ~swap => /\ after.positive = before.positive
                         /\ after.crossing_ticker
                              = before.crossing_ticker + 1
             /\ after.crossing_ticker >= 0
             /\ after.crossing_ticker = obs.since[c]

\* the left detector, its zero level moved off 0, swapped on a falling edge
\* and the right one has counted a sample since its swap
C12_Witness ==
    /\ obs.frames = 2
    /\ obs.swapped[2] /\ obs.before[2].positive = 1
    /\ obs.before[2].zero # 0
    /\ tc.channel[1].crossing_ticker = 0
    /\ ~obs.swapped[3] /\ tc.channel[2].positive = 1
    /\ tc.channel[2].crossing_ticker = 1

(***************************************************************************)
(* Properties of the record played.                                        *)
(***************************************************************************)
\* C19: from any decoder state, when the direction stays forwards and the
\* next bits + VALID_BITS + 1 sliced bits are the top bits of the codes
\* k + 1, k + 2, ... of the sequence, with k + bits + 25 < length, then
\* after them valid_counter > VALID_BITS and get_position returns
\* k + bits + 25; a mispredict happens among the first bits of them only.
C19_Relock ==
    LET d == ActiveDef
    IN  obs.phase = "play" =>
          /\ obs.fed >= d.bits => tc.valid_counter >= obs.fed - d.bits
          /\ obs.fed = RelockBits(d) =>
                /\ tc.valid_counter > VALID_BITS
                /\ Position(tc, d) = obs.k + d.bits + VALID_BITS + 1
                /\ ret.op = "get_position"
                     => ret.val = obs.k + d.bits + VALID_BITS + 1

\* after a skip off a locked position the decoder mispredicted, relocked and
\* reported the position on the record
C19_Witness ==
    /\ obs.phase = "play"
    /\ obs.skips = 1 /\ obs.missed >= 1
    /\ obs.fed = RelockBits(ActiveDef)
    /\ ret.op = "get_position"
    /\ ret.val = obs.k + ActiveDef.bits + VALID_BITS + 1
    /\ tc.valid_counter < RelockBits(ActiveDef)

====
